---------------------------- MODULE Spec2Model ----------------------------
(*
  A model of sage.categories.lie_algebras (the category LieAlgebras, its
  ParentMethods bch, lift, universal_enveloping_algebra, bracket, is_abelian,
  is_commutative and the LiftMorphism class) and of
  sage.coding.subfield_subcode (the class SubfieldSubcode).

  Algebra elements are modelled as integers: 0 is the zero element and the
  module sum is integer addition.  Python objects that only matter by their
  identity (an enveloping algebra, a morphism) are numbered in creation order.
*)
EXTENDS Integers, Sequences, FiniteSets, TLC

\* ------------------------------------------------------------- bounds
\* Largest nilpotency step (and period of an infinite term sequence).
MaxStep == 2
\* Largest explicit prec handed to bch.
MaxPrec == 4
\* Largest number of accesses to lift / universal_enveloping_algebra.
MaxAccess == 4
\* Largest number of Lie algebra generators.
MaxGens == 2
\* Largest length of an original code.
MaxLen == 7
\* Largest exponent e of a field order p^e.
MaxExp == 4
\* Largest number of parity_check_matrix() calls on one code.
MaxCalls == 3

\* Values a BCH term may take.
TermVals == {-1, 0, 1, 2}

\* An omitted prec (prec=None) and an explicit one.
NoPrec == <<>>
Prec(n) == <<n>>
PrecArgs == {NoPrec} \cup {Prec(n) : n \in (-1)..MaxPrec}

\* Sequences over S of length lo..hi.
SeqsOf(S, lo, hi) == UNION {[1..n -> S] : n \in lo..hi}

VARIABLES
  bchL,      \* the Lie algebra bch is called on: [nilpotent, step, terms,
             \* is_nilpotent]
  pep479,    \* whether the interpreter turns a StopIteration that escapes a
             \* generator body into RuntimeError (Python >= 3.7) or lets it
             \* end the generator silently (Python 2, Python < 3.7)
  bchCall,   \* the last bch call: its prec and what it did
  inst,      \* the Lie algebra instance lift is accessed on
  ueaMode,   \* how the concrete class treats _construct_UEA
  liftLog,   \* what each access of lift / universal_enveloping_algebra gave
  alg,       \* the Lie algebra bracket and is_abelian are called on
  algRes,    \* the last result of bracket / is_abelian / is_commutative
  code,      \* the SubfieldSubcode instance, once constructed
  codeRes,   \* the last result of a SubfieldSubcode operation
  pcmLog     \* the outcome of each parity_check_matrix() call

vars == <<bchL, pep479, bchCall, inst, ueaMode, liftLog, alg, algRes,
          code, codeRes, pcmLog>>
codeVars == <<code, codeRes, pcmLog>>

\* =====================================================================
\*  bch
\* =====================================================================

\* The BCH term generator: one term per bracket-nesting depth; it ends after
\* the step of a nilpotent algebra and never ends otherwise.
bch_iterator(L) == [terms |-> L.terms, finite |-> L.nilpotent]

\* Whether the i-th next() on the iterator yields a term (or StopIteration).
HasTerm(it, i) == ~it.finite \/ i <= Len(it.terms)
TermAt(it, i) == it.terms[((i - 1) % Len(it.terms)) + 1]

\* Requests after which a loop over the iterator is taken to never end.
IterCap == MaxStep + MaxPrec + 2

\* A variant of SumAll that stops one term early.
RECURSIVE SumAllDropLast(_, _, _)
SumAllDropLast(it, i, acc) ==
  IF i > IterCap
    THEN [outcome |-> "diverges", value |-> acc, requested |-> i - 1]
    ELSE IF HasTerm(it, i + 1)
      THEN SumAllDropLast(it, i + 1, acc + TermAt(it, i))
      ELSE [outcome |-> "return", value |-> acc, requested |-> i]

\* self.sum(Z for Z in bch_iterator(X, Y)): the i-th request, acc summed so far.
RECURSIVE SumAll(_, _, _)
SumAll(it, i, acc) ==
  IF i > IterCap
    THEN [outcome |-> "diverges", value |-> acc, requested |-> i - 1]
    ELSE IF HasTerm(it, i)
      THEN SumAll(it, i + 1, acc + TermAt(it, i))
      ELSE [outcome |-> "return", value |-> acc, requested |-> i]

\* A variant of SumPrec that loops over range(prec + 1).
RECURSIVE SumPrecOneMore(_, _, _, _, _)
SumPrecOneMore(it, prec, k, acc, py37) ==
  IF k > prec
    THEN [outcome |-> "return", value |-> acc, requested |-> k]
    ELSE IF HasTerm(it, k + 1)
      THEN SumPrecOneMore(it, prec, k + 1, acc + TermAt(it, k + 1), py37)
      ELSE IF py37
        THEN [outcome |-> "RuntimeError", value |-> 0, requested |-> k + 1]
        ELSE [outcome |-> "return", value |-> acc, requested |-> k + 1]

\* self.sum(next(bch) for k in range(prec)): iteration k (from 0), acc so far.
\* A next() on the exhausted iterator raises StopIteration inside the
\* generator expression: it ends the generator, or becomes RuntimeError.
RECURSIVE SumPrec(_, _, _, _, _)
SumPrec(it, prec, k, acc, py37) ==
  IF k >= prec
    THEN [outcome |-> "return", value |-> acc, requested |-> k]
    ELSE IF HasTerm(it, k + 1)
      THEN SumPrec(it, prec, k + 1, acc + TermAt(it, k + 1), py37)
      ELSE IF py37
        THEN [outcome |-> "RuntimeError", value |-> 0, requested |-> k + 1]
        ELSE [outcome |-> "return", value |-> acc, requested |-> k + 1]

\* L.is_nilpotent(): True in the Nilpotent category; elsewhere what the
\* class of L answers, if it implements the optional method at all.
is_nilpotent(L) == IF L.nilpotent THEN "True" ELSE L.is_nilpotent

\* L.step(): the nilpotency step, 0 where the class has no such method.
step(L) == L.step

\* A variant of the guard that asks is_nilpotent() instead of the category.
PrecisionRequiredAsksIsNilpotent(L, prec) ==
  is_nilpotent(L) # "True" /\ prec = NoPrec

\* A variant of the guard that tests membership instead of non-membership.
PrecisionRequiredNoNot(L, prec) == L.nilpotent /\ prec = NoPrec

\* The guard of bch: self not in LieAlgebras.Nilpotent and prec is None.
PrecisionRequired(L, prec) == ~L.nilpotent /\ prec = NoPrec

\* LieAlgebras.ParentMethods.bch(X, Y, prec): X, Y enter through the terms.
bch(L, prec, py37) ==
  IF PrecisionRequired(L, prec)
    THEN [outcome |-> "ValueError", value |-> 0, requested |-> 0,
          created |-> FALSE]
    ELSE LET it == bch_iterator(L)
             r == IF prec = NoPrec THEN SumAll(it, 1, 0)
                                   ELSE SumPrec(it, prec[1], 0, 0, py37)
         IN [outcome |-> r.outcome, value |-> r.value,
             requested |-> r.requested, created |-> TRUE]

NoCall == [made |-> FALSE, prec |-> NoPrec, outcome |-> "", value |-> 0,
           requested |-> 0, created |-> FALSE]

\* Nilpotent algebras of step 1..MaxStep, and algebras outside the category:
\* of these, a class may or may not implement is_nilpotent() and step(),
\* and is_nilpotent() may answer True.
IsNilpotentAnswers == {"True", "False", "absent"}
BchAlgebras ==
  {[nilpotent |-> TRUE, step |-> Len(t), terms |-> t, is_nilpotent |-> "True"] :
      t \in SeqsOf(TermVals, 1, MaxStep)}
  \cup
  {[nilpotent |-> FALSE, step |-> n, terms |-> t, is_nilpotent |-> a] :
      t \in SeqsOf(TermVals, MaxStep, MaxStep), n \in 0..MaxStep,
      a \in IsNilpotentAnswers}
NoBchL == [nilpotent |-> FALSE, step |-> 0, terms |-> <<0>>,
           is_nilpotent |-> "absent"]

NoInst == [cache |-> 0, calls |-> 0, built |-> <<>>, morphs |-> <<>>,
           coercions |-> <<>>]
NoAlg == [ngens |-> 0, finite |-> TRUE, br |-> <<>>, ideal |-> <<>>]
NoArg == [lie |-> FALSE, id |-> 0]
NoRes == [op |-> "", lhs |-> NoArg, rhs |-> NoArg, outcome |-> "",
          kind |-> "", of |-> 0, arg |-> 0, elt |-> 0, truth |-> FALSE,
          evaluated |-> 0, msg |-> "", sample |-> <<>>]

\* A field that is not finite (RR), an object that is no linear code, and
\* the state before a SubfieldSubcode exists.
NoField == [finite |-> FALSE, p |-> 0, e |-> 0, name |-> 0]
NoOriginal == [linear |-> FALSE, n |-> 0, k |-> 0, F |-> NoField, tag |-> 0]
NoCode == [isSub |-> FALSE, assigned |-> FALSE, initialised |-> FALSE,
           original_code |-> NoOriginal, base_field |-> NoField,
           length |-> 0, encoder |-> "", decoder |-> "", pcm_cache |-> <<>>]
NoCodeRes == [op |-> "", outcome |-> "", msg |-> "", value |-> 0,
              truth |-> FALSE, oc |-> NoOriginal, sf |-> NoField,
              other |-> NoCode]
NoCodeYet == code = NoCode /\ codeRes = NoCodeRes /\ pcmLog = <<>>

InitBch ==
  /\ bchL \in BchAlgebras
  /\ pep479 \in BOOLEAN
  /\ bchCall = NoCall
  /\ inst = NoInst /\ ueaMode = "" /\ liftLog = <<>>
  /\ alg = NoAlg /\ algRes = NoRes
  /\ NoCodeYet

\* A call L.bch(X, Y, prec).
Bch(prec) ==
  /\ bchCall' = [made |-> TRUE, prec |-> prec] @@ bch(bchL, prec, pep479)
  /\ UNCHANGED <<bchL, pep479, inst, ueaMode, liftLog, alg, algRes, codeVars>>

NextBch == \E prec \in PrecArgs : Bch(prec)

SpecBch == InitBch /\ [][NextBch]_vars

\* ---------------------------------------------------------------------
\*  Properties of bch
\* ---------------------------------------------------------------------

\* The sum of the first n terms of an iterator that has them.
RECURSIVE TermSum(_, _)
TermSum(it, n) == IF n <= 0 THEN 0 ELSE TermSum(it, n - 1) + TermAt(it, n)

ExplicitPrec == bchCall.made /\ bchCall.prec # NoPrec
OmittedPrec == bchCall.made /\ bchCall.prec = NoPrec

\* C1: on a nilpotent Lie algebra, bch(X, Y, prec) with any prec >= step
\* returns the value that bch(X, Y) with prec omitted returns.
C1_PrecAtLeastStepEqualsOmitted ==
  (bchL.nilpotent /\ ExplicitPrec /\ bchCall.prec[1] >= bchL.step)
    => /\ bchCall.outcome = "return"
       /\ bch(bchL, NoPrec, pep479).outcome = "return"
       /\ bchCall.value = bch(bchL, NoPrec, pep479).value

\* C2: outside the Nilpotent category, bch with prec omitted fails with
\* ValueError before the term iterator is created: no term is requested.
C2_PrecisionRequiredError ==
  (~bchL.nilpotent /\ OmittedPrec)
    => /\ bchCall.outcome = "ValueError"
       /\ ~bchCall.created
       /\ bchCall.requested = 0

C2_Witness == ~bchL.nilpotent /\ OmittedPrec /\ bchCall.outcome = "ValueError"

C22_ErrorIffOutsideCategoryAndPrecOmitted ==
  bchCall.made =>
    /\ bchCall.outcome = "ValueError"
         <=> (~bchL.nilpotent /\ bchCall.prec = NoPrec)
    /\ (~bchL.nilpotent /\ bchCall.prec = NoPrec /\ is_nilpotent(bchL) = "True")
         => bchCall.outcome = "ValueError"
    /\ bchL.nilpotent => bchCall.outcome # "ValueError"

\* Outside the category, with is_nilpotent() True and a step, prec omitted.
C22_Witness ==
  /\ OmittedPrec /\ ~bchL.nilpotent
  /\ is_nilpotent(bchL) = "True" /\ step(bchL) = MaxStep
  /\ bchCall.outcome = "ValueError"

\* Inside the category, prec omitted: no error.
C22_WitnessInside ==
  /\ OmittedPrec /\ bchL.nilpotent /\ is_nilpotent(bchL) = "True"
  /\ bchCall.outcome = "return"

\* =====================================================================
\*  lift, universal_enveloping_algebra, LiftMorphism
\* =====================================================================
\* inst.cache      the LiftMorphism stored in the instance for "lift" (0: none)
\* inst.calls      invocations of _construct_UEA so far
\* inst.built      the algebras _construct_UEA returned, oldest first
\* inst.morphs     the LiftMorphism objects created: morphs[m] is number m
\* inst.coercions  the morphisms register_as_coercion was performed on

UeaModes == {"implemented", "absent", "failing"}

\* Whether a call of _construct_UEA can return (TRUE) or raise (FALSE): an
\* implemented hook returns, a hook left abstract cannot be called, and a
\* hook may raise on some calls.
ConstructOutcomes(mode) ==
  CASE mode = "implemented" -> {TRUE}
    [] mode = "absent" -> {FALSE}
    [] OTHER -> BOOLEAN

\* self._construct_UEA(): a new algebra on each call that returns.
_construct_UEA(i, ok) ==
  LET n == i.calls + 1
  IN [inst |-> [i EXCEPT !.calls = n,
                         !.built = IF ok THEN Append(@, n) ELSE @],
      ok |-> ok, value |-> IF ok THEN n ELSE 0]

\* LiftMorphism.__init__(domain, codomain): a new morphism object.
LiftMorphism(i, codomain) ==
  LET m == Len(i.morphs) + 1
  IN [inst |-> [i EXCEPT !.morphs = Append(@, [codomain |-> codomain])],
      ok |-> TRUE, value |-> m]

\* M.register_as_coercion()
register_as_coercion(i, m) == [i EXCEPT !.coercions = Append(@, m)]

\* The body of lift: M = LiftMorphism(self, self._construct_UEA());
\* M.register_as_coercion(); return M.
lift_body(i, ok) ==
  LET c == _construct_UEA(i, ok)
  IN IF ~c.ok
       THEN c
       ELSE LET M == LiftMorphism(c.inst, c.value)
            IN [inst |-> register_as_coercion(M.inst, M.value),
                ok |-> TRUE, value |-> M.value]

\* A variant of lift that is an ordinary property: computed on every access.
liftNotCached(i, ok) == lift_body(i, ok)

\* A variant of lift that answers a failed construction with a default.
liftDefaultOnError(i, ok) ==
  IF i.cache # 0
    THEN [inst |-> i, ok |-> TRUE, value |-> i.cache]
    ELSE LET r == lift_body(i, ok)
         IN IF r.ok
              THEN [inst |-> [r.inst EXCEPT !.cache = r.value],
                    ok |-> TRUE, value |-> r.value]
              ELSE [inst |-> r.inst, ok |-> TRUE, value |-> 0]

\* self.lift, a lazy attribute: the body runs when the instance holds no
\* value for it; a value the body returns is stored in the instance, an
\* exception stores nothing.
lift(i, ok) ==
  IF i.cache # 0
    THEN [inst |-> i, ok |-> TRUE, value |-> i.cache]
    ELSE LET r == lift_body(i, ok)
         IN IF r.ok
              THEN [inst |-> [r.inst EXCEPT !.cache = r.value],
                    ok |-> TRUE, value |-> r.value]
              ELSE r

\* A variant of universal_enveloping_algebra that builds the algebra itself.
universal_enveloping_algebra_rebuilt(i, ok) == _construct_UEA(i, ok)

\* self.lift.codomain()
universal_enveloping_algebra(i, ok) ==
  LET r == lift(i, ok)
  IN IF r.ok
       THEN [inst |-> r.inst, ok |-> TRUE,
             value |-> r.inst.morphs[r.value].codomain]
       ELSE r

InitLift ==
  /\ inst = NoInst
  /\ ueaMode \in UeaModes
  /\ liftLog = <<>>
  /\ bchL = NoBchL
  /\ pep479 = FALSE /\ bchCall = NoCall
  /\ alg = NoAlg /\ algRes = NoRes
  /\ NoCodeYet

\* An access L.lift.
AccessLift ==
  /\ Len(liftLog) < MaxAccess
  /\ \E ok \in ConstructOutcomes(ueaMode) :
       LET r == lift(inst, ok)
       IN /\ inst' = r.inst
          /\ liftLog' = Append(liftLog,
                               [op |-> "lift", ok |-> r.ok, value |-> r.value])
  /\ UNCHANGED <<bchL, pep479, bchCall, ueaMode, alg, algRes, codeVars>>

\* A call L.universal_enveloping_algebra().
CallUEA ==
  /\ Len(liftLog) < MaxAccess
  /\ \E ok \in ConstructOutcomes(ueaMode) :
       LET r == universal_enveloping_algebra(inst, ok)
       IN /\ inst' = r.inst
          /\ liftLog' = Append(liftLog,
                               [op |-> "uea", ok |-> r.ok, value |-> r.value])
  /\ UNCHANGED <<bchL, pep479, bchCall, ueaMode, alg, algRes, codeVars>>

NextLift == AccessLift \/ CallUEA

SpecLift == InitLift /\ [][NextLift]_vars

\* ---------------------------------------------------------------------
\*  Properties of lift and universal_enveloping_algebra
\* ---------------------------------------------------------------------

Succeeded == {k \in DOMAIN liftLog : liftLog[k].ok}
Failed == {k \in DOMAIN liftLog : ~liftLog[k].ok}

\* C5: on an instance whose _construct_UEA returns, however lift and
\* universal_enveloping_algebra are used, _construct_UEA is invoked at most
\* once (once it has returned it is not invoked again), one LiftMorphism
\* exists and every access of lift returns it, and register_as_coercion
\* has been performed exactly once, on that morphism.
C5_LiftBuiltAndRegisteredOnce ==
  /\ Len(inst.built) <= 1
  /\ Len(inst.morphs) <= 1
  /\ Len(inst.coercions) <= 1
  /\ ueaMode = "implemented" => inst.calls <= 1
  /\ Succeeded # {}
       => /\ Len(inst.built) = 1
          /\ Len(inst.morphs) = 1
          /\ inst.coercions = <<1>>
          /\ inst.cache = 1
          /\ ueaMode = "implemented" => inst.calls = 1
          /\ \A k \in Succeeded : liftLog[k].op = "lift" => liftLog[k].value = 1

C5_Witness ==
  /\ ueaMode = "implemented"
  /\ Len(liftLog) = MaxAccess
  /\ liftLog[1].op = "lift" /\ liftLog[2].op = "uea" /\ liftLog[3].op = "lift"
  /\ \A k \in DOMAIN liftLog : liftLog[k].ok

\* C6: universal_enveloping_algebra() returns the codomain of the cached lift
\* morphism, which is the algebra the one _construct_UEA call that returned
\* gave; every call returns that algebra; before the first access nothing
\* has been constructed or registered.
C6_UEAIsCodomainOfCachedLift ==
  /\ \A k \in Succeeded :
       liftLog[k].op = "uea"
         => /\ inst.cache # 0
            /\ liftLog[k].value = inst.morphs[inst.cache].codomain
            /\ liftLog[k].value = inst.built[1]
            /\ Len(inst.built) = 1
  /\ liftLog = <<>>
       => /\ inst.calls = 0 /\ inst.built = <<>> /\ inst.morphs = <<>>
          /\ inst.coercions = <<>> /\ inst.cache = 0

C6_Witness ==
  /\ Len(liftLog) >= 3
  /\ liftLog[1].op = "uea" /\ liftLog[1].ok
  /\ liftLog[2].op = "lift"
  /\ liftLog[3].op = "uea" /\ liftLog[3].value = liftLog[1].value

\* C7: when _construct_UEA is not implemented, or a call of it fails, the
\* access of lift or universal_enveloping_algebra() fails too and returns
\* nothing; as long as no access has succeeded no LiftMorphism is cached or
\* exists and no coercion is registered, and every failed access has invoked
\* _construct_UEA anew.
C7_FailedConstructionLeavesNothing ==
  /\ ueaMode = "absent" => Succeeded = {}
  /\ inst.calls = Cardinality(Failed) + (IF Succeeded = {} THEN 0 ELSE 1)
  /\ Succeeded = {}
       => /\ inst.cache = 0 /\ inst.morphs = <<>>
          /\ inst.coercions = <<>> /\ inst.built = <<>>

C7_Witness ==
  /\ ueaMode = "absent"
  /\ Len(liftLog) >= 2
  /\ liftLog[1].op = "lift" /\ ~liftLog[1].ok
  /\ liftLog[2].op = "uea" /\ ~liftLog[2].ok
  /\ inst.calls = 2

\* =====================================================================
\*  bracket, ideal, is_abelian, is_commutative
\* =====================================================================
\* alg.ngens   the generators are the elements 1..ngens; 0 is the zero element
\* alg.finite  whether lie_algebra_generators() is in FiniteEnumeratedSets()
\* alg.br      br[<<x, y>>] is x._bracket_(y) for generators x, y: zero or
\*             the generator 1
\* alg.ideal   ideal[a]: whether the class of Lie algebra a defines ideal
\*             itself (otherwise it has the category's)
\* An operand of bracket is a Lie algebra (lie, id 1 for self, 2 for another
\* one) or a plain element (id 0..ngens).

LieAlgebraIds == {1, 2}
Gens(A) == 1..A.ngens

LieOperands == {[lie |-> TRUE, id |-> a] : a \in LieAlgebraIds}
EltOperands(A) == {[lie |-> FALSE, id |-> x] : x \in 0..A.ngens}
Operands(A) == LieOperands \cup EltOperands(A)

\* x._bracket_(y) on coerced elements; the bracket with zero is zero.
_bracket_(A, x, y) == IF x = 0 \/ y = 0 THEN 0 ELSE A.br[<<x, y>>]

\* lhs.product_space(rhs), left to the classes of the operands.
product_space(lhs, rhs) ==
  [outcome |-> "return", kind |-> "product_space", of |-> lhs.id,
   arg |-> rhs.id, elt |-> 0]

\* A variant of ideal whose category default builds the ideal.
idealBuiltByDefault(A, recv, gen) ==
  [outcome |-> "return", kind |-> "ideal", of |-> recv.id,
   arg |-> gen.id, elt |-> 0]

\* LieAlgebras.ParentMethods.ideal(*gens): the category's own method.
category_ideal(recv, gen) ==
  [outcome |-> "NotImplementedError",
   msg |-> "ideals not yet implemented: see #16824",
   kind |-> "ideal", of |-> recv.id, arg |-> gen.id, elt |-> 0]

\* recv.ideal(gen): the class's own method, or the category's, which raises
\* NotImplementedError("ideals not yet implemented: see #16824").
ideal(A, recv, gen) ==
  IF A.ideal[recv.id]
    THEN [outcome |-> "return", msg |-> "",
          kind |-> "ideal", of |-> recv.id, arg |-> gen.id, elt |-> 0]
    ELSE category_ideal(recv, gen)

\* A variant of bracket that brackets the coerced operands in swapped order.
bracketSwapped(A, lhs, rhs) ==
  IF lhs.lie
    THEN IF rhs.lie THEN product_space(lhs, rhs) ELSE ideal(A, lhs, rhs)
    ELSE IF rhs.lie
      THEN ideal(A, rhs, lhs)
      ELSE [outcome |-> "return", kind |-> "element", of |-> 0, arg |-> 0,
            elt |-> _bracket_(A, rhs.id, lhs.id)]

\* LieAlgebras.ParentMethods.bracket(lhs, rhs)
bracket(A, lhs, rhs) ==
  IF lhs.lie
    THEN IF rhs.lie THEN product_space(lhs, rhs) ELSE ideal(A, lhs, rhs)
    ELSE IF rhs.lie
      THEN ideal(A, rhs, lhs)
      ELSE [outcome |-> "return", kind |-> "element", of |-> 0, arg |-> 0,
            elt |-> _bracket_(A, lhs.id, rhs.id)]

\* A variant of AllBracketsZero that looks at the pairs x < y only after the
\* first row.
RECURSIVE AllBracketsZeroUpper(_, _, _, _)
AllBracketsZeroUpper(A, x, y, n) ==
  IF x > A.ngens
    THEN [truth |-> TRUE, evaluated |-> n]
    ELSE IF y > A.ngens
      THEN AllBracketsZeroUpper(A, x + 1, x + 2, n)
      ELSE IF _bracket_(A, x, y) # 0
        THEN [truth |-> FALSE, evaluated |-> n + 1]
        ELSE AllBracketsZeroUpper(A, x, y + 1, n + 1)

\* all(x._bracket_(y) == zero for x in G for y in G), at the pair (x, y)
\* with n brackets evaluated so far: it stops at the first non-zero bracket.
RECURSIVE AllBracketsZero(_, _, _, _)
AllBracketsZero(A, x, y, n) ==
  IF x > A.ngens
    THEN [truth |-> TRUE, evaluated |-> n]
    ELSE IF y > A.ngens
      THEN AllBracketsZero(A, x + 1, 1, n)
      ELSE IF _bracket_(A, x, y) # 0
        THEN [truth |-> FALSE, evaluated |-> n + 1]
        ELSE AllBracketsZero(A, x, y + 1, n + 1)

\* A variant of is_abelian without the test of the generator family.
is_abelianUnchecked(A) == [outcome |-> "return"] @@ AllBracketsZero(A, 1, 1, 0)

\* LieAlgebras.ParentMethods.is_abelian()
is_abelian(A) ==
  IF ~A.finite
    THEN [outcome |-> "NotImplementedError",
          msg |-> "infinite number of generators",
          truth |-> FALSE, evaluated |-> 0]
    ELSE [outcome |-> "return"] @@ AllBracketsZero(A, 1, 1, 0)

\* LieAlgebras.ParentMethods.is_commutative()
is_commutative(A) == is_abelian(A)

Algebras ==
  UNION {{[ngens |-> n, finite |-> f, br |-> b, ideal |-> d] :
            f \in BOOLEAN,
            b \in [(1..n) \X (1..n) -> {0, 1}],
            d \in [LieAlgebraIds -> BOOLEAN]} : n \in 0..MaxGens}

InitAlg ==
  /\ alg \in Algebras
  /\ algRes = NoRes
  /\ bchL = NoBchL
  /\ pep479 = FALSE /\ bchCall = NoCall
  /\ inst = NoInst /\ ueaMode = "" /\ liftLog = <<>>
  /\ NoCodeYet

\* A call L.bracket(lhs, rhs).
Bracket(lhs, rhs) ==
  /\ algRes' = [op |-> "bracket", lhs |-> lhs, rhs |-> rhs]
                  @@ bracket(alg, lhs, rhs) @@ NoRes
  /\ UNCHANGED <<bchL, pep479, bchCall, inst, ueaMode, liftLog, alg, codeVars>>

\* A call L.is_abelian().
IsAbelian ==
  /\ algRes' = [op |-> "is_abelian"] @@ is_abelian(alg) @@ NoRes
  /\ UNCHANGED <<bchL, pep479, bchCall, inst, ueaMode, liftLog, alg, codeVars>>

\* A call L.is_commutative().
IsCommutative ==
  /\ algRes' = [op |-> "is_commutative"] @@ is_commutative(alg) @@ NoRes
  /\ UNCHANGED <<bchL, pep479, bchCall, inst, ueaMode, liftLog, alg, codeVars>>

NextAlg ==
  \/ \E lhs \in Operands(alg), rhs \in Operands(alg) : Bracket(lhs, rhs)
  \/ IsAbelian
  \/ IsCommutative

SpecAlg == InitAlg /\ [][NextAlg]_vars

\* ---------------------------------------------------------------------
\*  Properties of bracket and is_abelian
\* ---------------------------------------------------------------------

BracketCalled == algRes.op = "bracket"
OneLieOperand == BracketCalled /\ (algRes.lhs.lie # algRes.rhs.lie)
TheLieOperand == IF algRes.lhs.lie THEN algRes.lhs ELSE algRes.rhs
TheEltOperand == IF algRes.lhs.lie THEN algRes.rhs ELSE algRes.lhs

\* C8: bracket(lhs, rhs) takes the branch that which operands are Lie
\* algebras selects: both, lhs.product_space(rhs); one, the ideal method of
\* that operand applied to the other; none, self(lhs)._bracket_(self(rhs)),
\* the left operand on the left.
C8_BracketDispatch ==
  BracketCalled =>
    LET l == algRes.lhs
        r == algRes.rhs
    IN /\ (l.lie /\ r.lie)
            => /\ algRes.kind = "product_space" /\ algRes.outcome = "return"
               /\ algRes.of = l.id /\ algRes.arg = r.id
       /\ (l.lie /\ ~r.lie)
            => /\ algRes.kind = "ideal"
               /\ algRes.of = l.id /\ algRes.arg = r.id
       /\ (~l.lie /\ r.lie)
            => /\ algRes.kind = "ideal"
               /\ algRes.of = r.id /\ algRes.arg = l.id
       /\ (~l.lie /\ ~r.lie)
            => /\ algRes.kind = "element" /\ algRes.outcome = "return"
               /\ algRes.elt = (IF l.id = 0 \/ r.id = 0 THEN 0
                                ELSE alg.br[<<l.id, r.id>>])

C8_Witness ==
  /\ BracketCalled /\ ~algRes.lhs.lie /\ ~algRes.rhs.lie
  /\ algRes.lhs.id = 1 /\ algRes.rhs.id = 2
  /\ alg.br[<<1, 2>>] = 1 /\ alg.br[<<2, 1>>] = 0
  /\ algRes.elt = 1

\* C9 as stated: with exactly one Lie algebra operand, bracket returns the
\* ideal of that Lie algebra generated by the plain element, also when the
\* Lie algebra has only the category's ideal method.
C9_OneLieOperandReturnsIdeal ==
  OneLieOperand
    => /\ algRes.outcome = "return"
       /\ algRes.kind = "ideal"
       /\ algRes.of = TheLieOperand.id
       /\ algRes.arg = TheEltOperand.id

\* C9 amended: with exactly one Lie algebra operand, bracket returns the ideal
\* of that Lie algebra generated by the plain element when the class of the
\* Lie algebra defines ideal; when it has only the category's ideal method,
\* bracket fails with NotImplementedError and returns nothing.
C9_OneLieOperandIdealOrNotImplemented ==
  OneLieOperand
    => /\ algRes.kind = "ideal"
       /\ algRes.of = TheLieOperand.id
       /\ algRes.arg = TheEltOperand.id
       /\ alg.ideal[TheLieOperand.id] => algRes.outcome = "return"
       /\ ~alg.ideal[TheLieOperand.id]
            => algRes.outcome = "NotImplementedError"

C9_Witness ==
  /\ OneLieOperand /\ algRes.rhs.lie
  /\ ~alg.ideal[algRes.rhs.id]
  /\ algRes.lhs.id = 1
  /\ algRes.outcome = "NotImplementedError"

\* C10: with a finite enumerated generator family, is_abelian() returns True
\* exactly when x._bracket_(y) is zero for every ordered pair of generators,
\* x = y included, and is_commutative() returns that value too.
C10_AbelianIffAllBracketsZero ==
  (algRes.op \in {"is_abelian", "is_commutative"} /\ alg.finite)
    => /\ algRes.outcome = "return"
       /\ algRes.truth
            <=> \A x \in Gens(alg), y \in Gens(alg) : alg.br[<<x, y>>] = 0

C10_Witness ==
  /\ algRes.op = "is_commutative" /\ alg.finite
  /\ alg.ngens = MaxGens
  /\ \A x \in Gens(alg), y \in Gens(alg) :
       alg.br[<<x, y>>] = 0 <=> ~(x = MaxGens /\ y = MaxGens)
  /\ ~algRes.truth
\* C11: when the generator family is not known to be a finite enumerated
\* set, is_abelian() fails with NotImplementedError("infinite number of
\* generators") before any bracket is evaluated, and returns neither True
\* nor False.
C11_InfiniteGeneratorsError ==
  (algRes.op = "is_abelian" /\ ~alg.finite)
    => /\ algRes.outcome = "NotImplementedError"
       /\ algRes.msg = "infinite number of generators"
       /\ algRes.evaluated = 0

C11_Witness ==
  /\ algRes.op = "is_abelian" /\ ~alg.finite
  /\ alg.ngens = MaxGens /\ alg.br[<<1, 1>>] = 1
  /\ algRes.outcome = "NotImplementedError"

\* =====================================================================
\*  SubfieldSubcode
\* =====================================================================
\* A field is [finite, p, e, name]: a finite field has characteristic p and
\* order p^e, and name is the name of its generator (GF(4, 'a')).  An
\* original code is [linear, n, k, F, tag]: whether it is an
\* AbstractLinearCode, its length, dimension and base field; tag tells apart
\* two codes with the same parameters.  The subfields taken are finite
\* fields of the characteristic of the base field, and RR.

Primes == {2, 3}
FieldNames == {1, 2}
CodeTags == {1, 2}

GF(p, e, name) == [finite |-> TRUE, p |-> p, e |-> e, name |-> name]

RECURSIVE Pow(_, _)
Pow(p, e) == IF e = 0 THEN 1 ELSE p * Pow(p, e - 1)

\* subfield.is_finite(), subfield.characteristic(), F.order()
is_finite(F) == F.finite
characteristic(F) == F.p
order(F) == Pow(F.p, F.e)

\* log(q, p) for q a power of p.
RECURSIVE log(_, _)
log(q, p) == IF q <= 1 THEN 0 ELSE 1 + log(q \div p, p)

\* A variant of divides with the operands exchanged.
dividesReversed(s, sm) == IF sm = 0 THEN s = 0 ELSE s % sm = 0

\* s.divides(sm)
divides(s, sm) == IF s = 0 THEN sm = 0 ELSE sm % s = 0

\* The registrations at the end of the module.
registered_encoders == {"ParityCheck"}
registered_decoders == {"Syndrome", "NearestNeighbor"}

\* AbstractLinearCode.__init__(base_field, length, default_encoder_name,
\* default_decoder_name): it wants registered default encoder and decoder.
AbstractLinearCode_init(obj, base_field, length, enc, dec) ==
  IF enc \notin registered_encoders \/ dec \notin registered_decoders
    THEN [outcome |-> "ValueError",
          msg |-> "You must set a valid encoder or decoder as default",
          obj |-> obj]
    ELSE [outcome |-> "return", msg |-> "",
          obj |-> [obj EXCEPT !.initialised = TRUE, !.base_field = base_field,
                              !.length = length, !.encoder = enc,
                              !.decoder = dec]]

Raised(msg) == [outcome |-> "ValueError", msg |-> msg, obj |-> NoCode]

\* A variant of __init__ that tests the subfield before the original code.
SubfieldSubcode_initFiniteFirst(original_code, subfield) ==
  IF ~is_finite(subfield)
    THEN Raised("subfield has to be a finite field")
  ELSE IF ~original_code.linear
    THEN Raised("original_code must be a linear code")
  ELSE LET p == characteristic(subfield)
           s == log(order(subfield), p)
           sm == log(order(original_code.F), p)
       IN IF ~divides(s, sm)
            THEN Raised("subfield has to be a subfield of the base field of the original code")
            ELSE AbstractLinearCode_init(
                   [NoCode EXCEPT !.isSub = TRUE, !.assigned = TRUE,
                                  !.original_code = original_code],
                   subfield, original_code.n, "ParityCheck", "Syndrome")

\* SubfieldSubcode.__init__(original_code, subfield)
SubfieldSubcode_init(original_code, subfield) ==
  IF ~original_code.linear
    THEN Raised("original_code must be a linear code")
  ELSE IF ~is_finite(subfield)
    THEN Raised("subfield has to be a finite field")
  ELSE LET p == characteristic(subfield)
           s == log(order(subfield), p)
           sm == log(order(original_code.F), p)
       IN IF ~divides(s, sm)
            THEN Raised("subfield has to be a subfield of the base field of the original code")
            ELSE AbstractLinearCode_init(
                   [NoCode EXCEPT !.isSub = TRUE, !.assigned = TRUE,
                                  !.original_code = original_code],
                   subfield, original_code.n, "ParityCheck", "Syndrome")

\* self.original_code(), self.base_field()
original_code(C) == C.original_code
base_field(C) == C.base_field

\* A variant of dimension_upper_bound that returns the length.
dimension_upper_boundLength(C) == original_code(C).n

\* SubfieldSubcode.dimension_upper_bound()
dimension_upper_bound(C) == original_code(C).k

\* A variant of dimension_lower_bound that never returns less than 0.
dimension_lower_boundClamped(C) ==
  LET oc == original_code(C)
      t == log(order(oc.F) \div order(base_field(C)), characteristic(oc.F))
      b == oc.n - t * (oc.n - oc.k)
  IN IF b < 0 THEN 0 ELSE b

\* SubfieldSubcode.dimension_lower_bound()
dimension_lower_bound(C) ==
  LET oc == original_code(C)
      n == oc.n
      k == oc.k
      F == oc.F
      t == log(order(F) \div order(base_field(C)), characteristic(F))
  IN n - t * (n - k)

\* A variant of parity_check_matrix whose cache keeps the failure, so that
\* the next call returns it.
parity_check_matrixCachedFailure(C) ==
  IF C.pcm_cache # <<>>
    THEN [outcome |-> "return", obj |-> C]
    ELSE [outcome |-> "NotImplementedError",
          obj |-> [C EXCEPT !.pcm_cache = <<"NotImplementedError">>]]

\* SubfieldSubcode.parity_check_matrix() under @cached_method: a cached
\* value is returned; otherwise the body runs, and it raises, which leaves
\* the cache as it was.
parity_check_matrix(C) ==
  IF C.pcm_cache # <<>>
    THEN [outcome |-> "return", obj |-> C]
    ELSE [outcome |-> "NotImplementedError", obj |-> C]

\* The original codes and subfields a construction is tried with.
BaseFields == {GF(p, e, 1) : p \in Primes, e \in 1..MaxExp}
OriginalCodes ==
  {[linear |-> TRUE, n |-> n, k |-> k, F |-> F, tag |-> g] :
     n \in 1..MaxLen, k \in 0..MaxLen, F \in BaseFields, g \in CodeTags}
Originals == {oc \in OriginalCodes : oc.k <= oc.n} \cup {NoOriginal}
Subfields(oc) ==
  {GF(oc.F.p, e, a) : e \in 1..MaxExp, a \in FieldNames} \cup {NoField}

InitCode ==
  /\ NoCodeYet
  /\ bchL = NoBchL
  /\ pep479 = FALSE /\ bchCall = NoCall
  /\ inst = NoInst /\ ueaMode = "" /\ liftLog = <<>>
  /\ alg = NoAlg /\ algRes = NoRes

lieVars == <<bchL, pep479, bchCall, inst, ueaMode, liftLog, alg, algRes>>

\* codes.SubfieldSubcode(original_code, subfield): the instance exists only
\* when __init__ returns.  A behaviour follows one constructor call and the
\* calls made on its instance.
Construct(oc, sf) ==
  /\ code = NoCode /\ codeRes = NoCodeRes
  /\ LET r == SubfieldSubcode_init(oc, sf)
     IN /\ code' = IF r.outcome = "return" THEN r.obj ELSE code
        /\ codeRes' = [op |-> "__init__", outcome |-> r.outcome,
                       msg |-> r.msg, oc |-> oc, sf |-> sf,
                       other |-> r.obj] @@ NoCodeRes
  /\ UNCHANGED <<lieVars, pcmLog>>

\* A call Cs.dimension_upper_bound().
DimensionUpperBound ==
  /\ code # NoCode
  /\ codeRes' = [op |-> "dimension_upper_bound", outcome |-> "return",
                 value |-> dimension_upper_bound(code)] @@ NoCodeRes
  /\ UNCHANGED <<lieVars, code, pcmLog>>

\* A call Cs.dimension_lower_bound().
DimensionLowerBound ==
  /\ code # NoCode
  /\ codeRes' = [op |-> "dimension_lower_bound", outcome |-> "return",
                 value |-> dimension_lower_bound(code)] @@ NoCodeRes
  /\ UNCHANGED <<lieVars, code, pcmLog>>

\* A call Cs.parity_check_matrix().
ParityCheckMatrix ==
  /\ code # NoCode
  /\ Len(pcmLog) < MaxCalls
  /\ LET r == parity_check_matrix(code)
     IN /\ code' = r.obj
        /\ pcmLog' = Append(pcmLog, r.outcome)
        /\ codeRes' = [op |-> "parity_check_matrix",
                       outcome |-> r.outcome] @@ NoCodeRes
  /\ UNCHANGED lieVars

NextCode ==
  \/ \E oc \in Originals : \E sf \in Subfields(oc) : Construct(oc, sf)
  \/ DimensionUpperBound
  \/ DimensionLowerBound
  \/ ParityCheckMatrix

SpecCode == InitCode /\ [][NextCode]_vars

\* ---------------------------------------------------------------------
\* Claims about SubfieldSubcode construction
\* ---------------------------------------------------------------------
InitCalled == codeRes.op = "__init__"

\* The three checks of the constructor, stated on the arguments: the
\* exponents of the two orders are the e fields of the fields.
NotLinear == ~codeRes.oc.linear
NotFinite == ~codeRes.sf.finite
NotDividing == codeRes.oc.linear /\ codeRes.sf.finite
                 /\ codeRes.oc.F.e % codeRes.sf.e # 0

FirstViolatedMessage ==
  IF NotLinear THEN "original_code must be a linear code"
  ELSE IF NotFinite THEN "subfield has to be a finite field"
  ELSE "subfield has to be a subfield of the base field of the original code"

\* C12: a construction that violates a check fails with ValueError, the
\* message is that of the first violated check in the order linear code,
\* finiteness, divisibility, _original_code has not been assigned, the base
\* initializer has not run, and no instance exists.
C12_ViolationRaisesBeforeAnyAssignment ==
  (InitCalled /\ (NotLinear \/ NotFinite \/ NotDividing))
    => /\ codeRes.outcome = "ValueError"
       /\ codeRes.msg = FirstViolatedMessage
       /\ ~codeRes.other.assigned
       /\ ~codeRes.other.initialised
       /\ code = NoCode

\* Both of the first two checks are violated: the message is that of the
\* linear-code check.
C12_Witness ==
  /\ InitCalled /\ NotLinear /\ NotFinite
  /\ codeRes.outcome = "ValueError"
  /\ codeRes.msg = "original_code must be a linear code"

\* C13: for a linear original code and a finite subfield of order p^s,
\* the base field having order p^sm, the construction raises the subfield
\* error when s does not divide sm and succeeds when it does, the instance
\* then having the subfield as its base field.
C13_SubfieldErrorIffNotDividing ==
  (InitCalled /\ codeRes.oc.linear /\ codeRes.sf.finite)
    => IF codeRes.oc.F.e % codeRes.sf.e # 0
         THEN /\ codeRes.outcome = "ValueError"
              /\ codeRes.msg = "subfield has to be a subfield of the base field of the original code"
              /\ code = NoCode
         ELSE /\ codeRes.outcome = "return"
              /\ code.isSub /\ code.initialised
              /\ code.original_code = codeRes.oc
              /\ code.base_field = codeRes.sf

\* GF(8) against GF(16).
C13_Witness ==
  /\ InitCalled /\ codeRes.oc.linear /\ codeRes.sf.finite
  /\ codeRes.sf.p = 2 /\ codeRes.sf.e = 3 /\ codeRes.oc.F.e = 4
  /\ codeRes.outcome = "ValueError"

\* GF(4) against GF(16).
C13_WitnessAccepted ==
  /\ InitCalled /\ codeRes.oc.linear /\ codeRes.sf.finite
  /\ codeRes.sf.p = 2 /\ codeRes.sf.e = 2 /\ codeRes.oc.F.e = 4
  /\ codeRes.outcome = "return"

\* ---------------------------------------------------------------------
\* Claims about the dimension bounds and parity_check_matrix
\* ---------------------------------------------------------------------
\* The instance is over GF(p^s) and comes from an [n, k] code over GF(p^sm).
CodeN == code.original_code.n
CodeK == code.original_code.k
CodeS == code.base_field.e
CodeSM == code.original_code.F.e

\* C14: dimension_lower_bound() is n - m(n-k) with m = sm/s the degree of
\* the base field of the original code over the subfield.
C14_ClassicalBound ==
  codeRes.op = "dimension_lower_bound"
    => codeRes.value = CodeN - (CodeSM \div CodeS) * (CodeN - CodeK)

\* C15: dimension_lower_bound() returns n - t(n-k), t being the exponent of
\* p in the quotient of the two orders, and the value is not clamped.
C15_LowerBoundClosedForm ==
  codeRes.op = "dimension_lower_bound"
    => /\ Pow(code.base_field.p, CodeSM - CodeS)
            = order(code.original_code.F) \div order(code.base_field)
       /\ codeRes.value = CodeN - (CodeSM - CodeS) * (CodeN - CodeK)

\* n = 7, k = 3, GF(16) over GF(4): the value is -1.
C15_Witness ==
  /\ codeRes.op = "dimension_lower_bound"
  /\ CodeN = 7 /\ CodeK = 3 /\ CodeSM = 4 /\ CodeS = 2
  /\ code.base_field.p = 2
  /\ codeRes.value = -1

\* C17: dimension_upper_bound() is the dimension of the original code.
C17_UpperBoundIsOriginalDimension ==
  codeRes.op = "dimension_upper_bound" => codeRes.value = CodeK

C17_Witness ==
  /\ codeRes.op = "dimension_upper_bound"
  /\ CodeK = 3 /\ CodeN = 7
  /\ codeRes.value = 3

\* C18: every call of parity_check_matrix() on an instance fails with
\* NotImplementedError, and the cache of the method stays empty.
C18_ParityCheckMatrixAlwaysFails ==
  /\ \A i \in DOMAIN pcmLog : pcmLog[i] = "NotImplementedError"
  /\ code.pcm_cache = <<>>

C18_Witness ==
  /\ Len(pcmLog) >= 2
  /\ pcmLog[1] = "NotImplementedError"
  /\ pcmLog[2] = "NotImplementedError"

\* C21: for every constructed subfield subcode the lower bound of the
\* dimension is at most the upper bound.
C21_LowerBoundAtMostUpperBound ==
  code # NoCode => dimension_lower_bound(code) <= dimension_upper_bound(code)

\* Where the two bounds are in order: the original code is the whole space
\* (k = n) or the subfield is a proper subfield (s < sm); they are out of
\* order exactly when the subfield has the order of the base field and k < n.
C21_BoundsOrderedIffProperSubfieldOrFullCode ==
  code # NoCode =>
    (dimension_lower_bound(code) <= dimension_upper_bound(code)
       <=> (CodeK = CodeN \/ CodeS < CodeSM))

\* Subfield and base field of the same order, k < n, both bounds asked for.
C21_Reached ==
  /\ code # NoCode /\ CodeS = CodeSM /\ CodeK < CodeN
  /\ codeRes.op = "dimension_lower_bound"
  /\ codeRes.value > dimension_upper_bound(code)

\* ---------------------------------------------------------------------
\* Equality of subfield subcodes
\* ---------------------------------------------------------------------
\* A variant of __eq__ that compares the base fields themselves, generator
\* names included.
SubfieldSubcode_eqSameField(self, other) ==
  /\ other.isSub
  /\ original_code(self) = original_code(other)
  /\ base_field(self) = base_field(other)

\* SubfieldSubcode.__eq__(self, other)
SubfieldSubcode_eq(self, other) ==
  /\ other.isSub
  /\ original_code(self) = original_code(other)
  /\ order(base_field(self)) = order(base_field(other))

\* The original codes of the instances that are compared: the longest
\* ones, of the two largest dimensions.
EqOriginals == {oc \in Originals : oc.linear => (oc.n = MaxLen /\ oc.k >= MaxLen - 1)}

\* What an instance is compared with: every instance the constructor
\* builds, and the original code itself, which is no SubfieldSubcode.
Instances ==
  UNION {{SubfieldSubcode_init(oc, sf).obj : sf \in Subfields(oc) \ {NoField}} :
           oc \in EqOriginals \ {NoOriginal}}
    \ {NoCode}
NotASubcode(C) ==
  [NoCode EXCEPT !.original_code = C.original_code,
                 !.base_field = C.original_code.F,
                 !.length = C.length]
Others(C) == Instances \cup {NotASubcode(C)}

\* An evaluation of Cs == other.
Eq(other) ==
  /\ code # NoCode
  /\ codeRes' = [op |-> "__eq__", outcome |-> "return",
                 truth |-> SubfieldSubcode_eq(code, other),
                 other |-> other] @@ NoCodeRes
  /\ UNCHANGED <<lieVars, code, pcmLog>>

NextEq ==
  \/ \E oc \in EqOriginals : \E sf \in Subfields(oc) : Construct(oc, sf)
  \/ \E other \in Others(code) : Eq(other)

SpecEq == InitCode /\ [][NextEq]_vars

EqCalled == codeRes.op = "__eq__"

\* C16: A == B is True exactly when B is a SubfieldSubcode, the original
\* codes are equal and the subfields have the same order (the same
\* characteristic and the same exponent); comparison with an object that is
\* no SubfieldSubcode is False.
C16_EqualIffSameOriginalAndOrder ==
  EqCalled =>
    /\ codeRes.other.isSub =>
         (codeRes.truth <=>
            /\ code.original_code = codeRes.other.original_code
            /\ code.base_field.p = codeRes.other.base_field.p
            /\ code.base_field.e = codeRes.other.base_field.e)
    /\ ~codeRes.other.isSub => ~codeRes.truth

\* Two instances from the same original code over GF(4, 'a') and
\* GF(4, 'b') compare equal.
C16_Witness ==
  /\ EqCalled /\ codeRes.other.isSub /\ codeRes.truth
  /\ code.base_field.e = 2 /\ code.base_field.p = 2
  /\ code.base_field.name # codeRes.other.base_field.name

\* Comparison with the original code.
C16_WitnessOtherClass ==
  /\ EqCalled /\ ~codeRes.other.isSub /\ ~codeRes.truth
  /\ codeRes.other.base_field = code.base_field

\* =====================================================================
\*  _test_jacobi_identity
\* =====================================================================
\* The elements are 0 (zero) and the generators; a bracket of generators is
\* zero or the generator 1, so a sum of three brackets is a multiple of the
\* generator 1, kept as its coefficient.

Elt(x) == [lie |-> FALSE, id |-> x]

\* jacobi(x, y, z): the sum of the three nested brackets.
jacobi(A, x, y, z) ==
  bracket(A, Elt(x), Elt(bracket(A, Elt(y), Elt(z)).elt)).elt
    + bracket(A, Elt(y), Elt(bracket(A, Elt(z), Elt(x)).elt)).elt
    + bracket(A, Elt(z), Elt(bracket(A, Elt(x), Elt(y)).elt)).elt

\* A variant of the loops without the skip of the pairs x == y.
RECURSIVE JacobiLoopsNoSkip(_, _, _, _, _, _)
JacobiLoopsNoSkip(A, elts, i, j, k, n) ==
  IF i > Len(elts)
    THEN [outcome |-> "return", evaluated |-> n]
  ELSE IF j > Len(elts)
    THEN JacobiLoopsNoSkip(A, elts, i + 1, 1, 1, n)
  ELSE IF k > Len(elts)
    THEN JacobiLoopsNoSkip(A, elts, i, j + 1, 1, n)
  ELSE IF jacobi(A, elts[i], elts[j], elts[k]) # 0
    THEN [outcome |-> "AssertionError", evaluated |-> n + 1]
    ELSE JacobiLoopsNoSkip(A, elts, i, j, k + 1, n + 1)

\* for x in elts: for y in elts: if x == y: continue; for z in elts:
\* tester.assertTrue(jacobi(x, y, z) == zero), at the positions (i, j, k)
\* with n assertions made so far; a failed assertion ends the test.
RECURSIVE JacobiLoops(_, _, _, _, _, _)
JacobiLoops(A, elts, i, j, k, n) ==
  IF i > Len(elts)
    THEN [outcome |-> "return", evaluated |-> n]
  ELSE IF j > Len(elts)
    THEN JacobiLoops(A, elts, i + 1, 1, 1, n)
  ELSE IF elts[i] = elts[j] \/ k > Len(elts)
    THEN JacobiLoops(A, elts, i, j + 1, 1, n)
  ELSE IF jacobi(A, elts[i], elts[j], elts[k]) # 0
    THEN [outcome |-> "AssertionError", evaluated |-> n + 1]
    ELSE JacobiLoops(A, elts, i, j, k + 1, n + 1)

\* LieAlgebras.ParentMethods._test_jacobi_identity(elements=elts)
_test_jacobi_identity(A, elts) == JacobiLoops(A, elts, 1, 1, 1, 0)

\* The samples: the lists of distinct elements, in increasing order.
RECURSIVE Sorted(_)
Sorted(S) ==
  IF S = {} THEN <<>>
  ELSE LET m == CHOOSE x \in S : \A y \in S : x <= y
       IN <<m>> \o Sorted(S \ {m})
Samples(A) == {Sorted(S) : S \in SUBSET (0..A.ngens)}

\* A call L._test_jacobi_identity(elements=elts).
TestJacobi(elts) ==
  /\ algRes' = [op |-> "_test_jacobi_identity", sample |-> elts]
                  @@ _test_jacobi_identity(alg, elts) @@ NoRes
  /\ UNCHANGED <<bchL, pep479, bchCall, inst, ueaMode, liftLog, alg, codeVars>>

NextJacobi == \E elts \in Samples(alg) : TestJacobi(elts)

SpecJacobi == InitAlg /\ [][NextJacobi]_vars

JacobiTested == algRes.op = "_test_jacobi_identity"
Sampled == {algRes.sample[i] : i \in DOMAIN algRes.sample}
Violates(x, y, z) == jacobi(alg, x, y, z) # 0

\* C19: the test asserts the Jacobi identity for every triple of sampled
\* elements, so it fails whenever some triple of them violates it.
C19_FailsOnAnyViolatingTriple ==
  JacobiTested =>
    ((\E x \in Sampled, y \in Sampled, z \in Sampled : Violates(x, y, z))
       => algRes.outcome = "AssertionError")

\* C19: the test fails exactly when some triple (x, y, z) of sampled
\* elements with x # y violates the Jacobi identity; when it passes, the
\* only triples of sampled elements that can violate it are those with
\* x = y = z.
C19_FailsIffViolatingTripleWithDistinctFirstTwo ==
  JacobiTested =>
    /\ algRes.outcome = "AssertionError"
         <=> \E x \in Sampled, y \in Sampled, z \in Sampled :
               x # y /\ Violates(x, y, z)
    /\ algRes.outcome = "return"
         => \A x \in Sampled, y \in Sampled, z \in Sampled :
              Violates(x, y, z) => (x = y /\ y = z)

\* The test passes although the triple (1, 1, 1) violates the identity.
C19_Witness ==
  /\ JacobiTested /\ algRes.outcome = "return"
  /\ 1 \in Sampled /\ Cardinality(Sampled) >= 2
  /\ Violates(1, 1, 1)
  /\ algRes.evaluated > 0

\* The test fails on a triple with x # y.
C19_WitnessFails ==
  /\ JacobiTested /\ algRes.outcome = "AssertionError"
  /\ algRes.evaluated > 1

\* =====================================================================
\*  subalgebra, ideal, is_ideal of the category
\* =====================================================================
\* self is the Lie algebra 1.
Self == [lie |-> TRUE, id |-> 1]

\* LieAlgebras.ParentMethods.subalgebra(gens)
subalgebra(recv, gen) ==
  [outcome |-> "NotImplementedError",
   msg |-> "subalgebras not yet implemented: see #17416",
   kind |-> "subalgebra", of |-> recv.id, arg |-> gen.id, elt |-> 0]

\* A variant of is_ideal that answers False where it cannot tell.
is_idealFalse(recv, A) ==
  IF A = recv
    THEN [outcome |-> "return", msg |-> "", truth |-> TRUE]
    ELSE [outcome |-> "return", msg |-> "", truth |-> FALSE]

\* LieAlgebras.ParentMethods.is_ideal(A)
is_ideal(recv, A) ==
  IF A = recv
    THEN [outcome |-> "return", msg |-> "", truth |-> TRUE]
    ELSE [outcome |-> "NotImplementedError",
          msg |-> "ideals not yet implemented: see #16824",
          truth |-> FALSE]

\* A call L.subalgebra(gen) that reaches the category's method.
Subalgebra(gen) ==
  /\ algRes' = [op |-> "subalgebra", lhs |-> Self, rhs |-> gen]
                  @@ subalgebra(Self, gen) @@ NoRes
  /\ UNCHANGED <<bchL, pep479, bchCall, inst, ueaMode, liftLog, alg, codeVars>>

\* A call L.ideal(gen) that reaches the category's method.
Ideal(gen) ==
  /\ algRes' = [op |-> "ideal", lhs |-> Self, rhs |-> gen]
                  @@ category_ideal(Self, gen) @@ NoRes
  /\ UNCHANGED <<bchL, pep479, bchCall, inst, ueaMode, liftLog, alg, codeVars>>

\* A call L.is_ideal(A).
IsIdeal(A) ==
  /\ algRes' = [op |-> "is_ideal", lhs |-> Self, rhs |-> A]
                  @@ is_ideal(Self, A) @@ NoRes
  /\ UNCHANGED <<bchL, pep479, bchCall, inst, ueaMode, liftLog, alg, codeVars>>

NextStubs ==
  \/ \E gen \in Operands(alg) : Subalgebra(gen)
  \/ \E gen \in Operands(alg) : Ideal(gen)
  \/ \E A \in Operands(alg) : IsIdeal(A)

SpecStubs == InitAlg /\ [][NextStubs]_vars

\* C20: the category's subalgebra and ideal raise NotImplementedError with
\* their fixed messages whatever the argument; is_ideal(A) returns True when
\* A == self and raises NotImplementedError otherwise, and no call returns
\* False.
C20_StubsRaiseAndIsIdealNeverFalse ==
  /\ algRes.op = "subalgebra"
       => /\ algRes.outcome = "NotImplementedError"
          /\ algRes.msg = "subalgebras not yet implemented: see #17416"
  /\ algRes.op = "ideal"
       => /\ algRes.outcome = "NotImplementedError"
          /\ algRes.msg = "ideals not yet implemented: see #16824"
  /\ algRes.op = "is_ideal"
       => IF algRes.rhs = algRes.lhs
            THEN algRes.outcome = "return" /\ algRes.truth
            ELSE /\ algRes.outcome = "NotImplementedError"
                 /\ algRes.msg = "ideals not yet implemented: see #16824"

\* is_ideal of another Lie algebra.
C20_Witness ==
  /\ algRes.op = "is_ideal"
  /\ algRes.rhs.lie /\ algRes.rhs # algRes.lhs
  /\ algRes.outcome = "NotImplementedError"

C20_WitnessSubalgebra ==
  /\ algRes.op = "subalgebra" /\ ~algRes.rhs.lie /\ algRes.rhs.id = MaxGens
  /\ algRes.outcome = "NotImplementedError"

=============================================================================
